---- MODULE Spec2Model ----
(***************************************************************************)
(* FreeFlow: the streaming transcription coordinator (python/transcriber), *)
(* the audio source (python/audio_capture) and the session orchestrator of *)
(* the API server (python/api).                                            *)
(*                                                                         *)
(* Audio is measured in samples.  A flat sample array is represented by    *)
(* its length; the chunk list of the audio source is a sequence of chunk   *)
(* lengths.  A text is a sequence of characters, so that str.strip() is    *)
(* computed and not assumed.                                               *)
(*                                                                         *)
(* The hotkey machine (hotkey_manager) works on sets of normalized keys.    *)
(*                                                                         *)
(* Nine specifications are given over the same state:                      *)
(*   Spec      - the threads of the API server (hotkey listener, audio     *)
(*               callback, finalize workers) interleaved at the points     *)
(*               where a thread blocks (a backend call, stream.stop(),     *)
(*               thread start, time.sleep);                                *)
(*   SpecCoord - one caller applying the coordinator's operations one at   *)
(*               a time, each operation running to completion;             *)
(*   SpecHotkey - the hotkey machine with key handlers and configuration   *)
(*               calls run one at a time;                                  *)
(*   SpecHotkeyThreads - the key-listener thread interleaved with a        *)
(*               thread that calls disable() and enable();                 *)
(*   SpecLive  - Spec with only the first recording session long enough    *)
(*               for chunk and flush passes;                               *)
(*   SpecMain  - the threads of the desktop application (main): hotkey     *)
(*               listener, audio callback, settings dialog and the         *)
(*               transcription workers that share one lock;                *)
(*   SpecToggle - the API server driven by the hotkey machine in Toggle    *)
(*               mode, with the POST /recording/cancel endpoint;           *)
(*   SpecStop  - the API server with a thread serving                      *)
(*               POST /recording/stop next to the release handler;         *)
(*   SpecHistory - the history file under add, delete and clear.           *)
(***************************************************************************)
EXTENDS Integers, Sequences, FiniteSets, TLC

\* ------------------------------------------------------------- constants
MIN_SAMPLES_FOR_TRANSCRIPTION == 32000

TRANSCRIBE_INTERVAL_SAMPLES == 16000

min_flush_samples == 8000

CHUNK_SIZE == 1024

\* --------------------------------------------------------------- bounds
\* SpecCoord: most samples pushed between two resets.
MaxSamples == 50000

\* SpecCoord: most chunks of CHUNK_SIZE samples pushed between two resets.
MaxShortChunks == 2

\* Spec: recording sessions started in one run.
MaxSessions == 2

\* Spec: audio callbacks delivered in one session.
MaxChunks == 33

\* SpecHotkey: key events (first presses and releases) recorded after the
\* construction of the hotkey manager; the record ends with the first other
\* operation.
MaxEvents == 6

\* Audio callbacks delivered in a recording session after the first one, in
\* SpecLive.
MaxLaterChunks == 2

\* SpecMain: audio callbacks delivered in one session.
MaxFrames == 2

\* SpecHistory: most entries in the history file.
MaxHistory == 5

\* Chunk lengths offered to the coordinator by the single caller.
ChunkSizes == {CHUNK_SIZE, min_flush_samples, TRANSCRIBE_INTERVAL_SAMPLES}

\* ---------------------------------------------------------------- texts
NoText == << >>

\* What the backend can answer: nothing, a word, the same word with
\* surrounding white space, white space only, another word.
ModelTexts ==
    { NoText, <<"a">>, <<"a", " ">>, <<" ">>, <<"b">> }

\* A backend invocation either returns a text or raises.
ModelOutcomes ==
    [ok : {TRUE}, text : ModelTexts] \cup {[ok |-> FALSE, text |-> NoText]}

\* The backend outcomes offered to the threads of Spec: a text, no text,
\* an exception.
ThreadOutcomes ==
    {o \in ModelOutcomes : o.text \in {NoText, <<"a">>}}

RECURSIVE LStrip(_)
LStrip(s) ==
    IF s # << >> /\ Head(s) = " " THEN LStrip(Tail(s)) ELSE s

RECURSIVE RStrip(_)
RStrip(s) ==
    IF s # << >> /\ s[Len(s)] = " " THEN RStrip(SubSeq(s, 1, Len(s) - 1)) ELSE s

\* str.strip()
Strip(s) == RStrip(LStrip(s))

RECURSIVE SumSeq(_)
SumSeq(s) ==
    IF s = << >> THEN 0 ELSE Head(s) + SumSeq(Tail(s))

VARIABLES
    model_ready,              \* Transcriber.model is not None
    streaming_buffer,         \* len(Transcriber._streaming_buffer)
    last_transcribed_length,  \* Transcriber._last_transcribed_length
    current_partial_text,     \* api.current_partial_text
    is_recording,             \* api.is_recording
    status,                   \* the status most recently broadcast
    audio_recording,          \* AudioCapture._recording
    stream_open,              \* AudioCapture._stream is an open stream
    audio_buffer,             \* AudioCapture._audio_buffer
    hk,                       \* hotkey-listener thread: position and locals
    au,                       \* audio-callback thread: position and locals
    workers,                  \* finalize worker threads, one per finalized session
    model_calls,              \* backend invocations in progress
    sessions,                 \* recording sessions started so far
    chunks,                   \* audio callbacks delivered in the current session
    last_op,                  \* observation: the last coordinator operation
    pushed,                   \* observation: samples pushed since the last reset
    short_pushed,             \* observation: chunks of CHUNK_SIZE pushed since then
    inv_len,                  \* observation: length at the last pushChunk invocation
    inv_ok_len,               \* observation: length at the last successful one
    prev_emit,                \* observation: the last partial emitted in the session
    twin,                     \* observation: a freshly reset coordinator fed the same chunks
                              \* since the last finalize, and whether that finalize found
                              \* a buffer that had been transcribed
    after_finalize,           \* observation: a finalize returned and no reset followed
    emit_len,                 \* observation: the accumulated length the last partial
                              \* broadcast in the running session was computed over
    hotkey_manager,           \* "none", or "started": constructed and listening
    mode,                     \* HotkeyManager._mode
    hotkey_keys,              \* HotkeyManager._hotkey_keys
    pressed_keys,             \* HotkeyManager._pressed_keys
    hotkey_active,            \* HotkeyManager._hotkey_active
    toggle_recording,         \* HotkeyManager._toggle_recording
    enabled,                  \* HotkeyManager._enabled
    kl,                       \* key-listener thread: position and the event it handles
    ctl,                      \* the thread calling disable(): position
    held,                     \* environment: the keys physically held down
    last_ev,                  \* observation: the last hotkey-machine operation
    logging,                  \* observation: only first presses and releases of keys were
                              \* handled since construction
    events,                   \* observation: those key events, in order
    fired,                    \* observation: the callbacks they fired, with the event index
    last_cb,                  \* observation: the callback fired last since construction;
                              \* "off" once a configuration call was made
    settings_open,            \* FreeFlowApp._settings_open
    transcribe_lock,          \* FreeFlowApp._transcribe_lock: 0, or the worker holding it
    last_fin,                 \* observation: how the last finalize backend call of the
                              \* desktop application ended
    history,                  \* the ids of the entries in history.json, in file order
    rs,                       \* the thread serving POST /recording/stop: its position
    rest_fin                  \* observation: the sessions whose capture went to the
                              \* transcribe() of POST /recording/stop

coord_vars == <<model_ready, streaming_buffer, last_transcribed_length>>

api_vars == <<current_partial_text, is_recording, status>>

audio_vars == <<audio_recording, stream_open, audio_buffer>>

thread_vars == <<hk, au, workers, model_calls, sessions, chunks>>

obs_vars ==
    <<last_op, pushed, short_pushed, inv_len, inv_ok_len, prev_emit, twin, after_finalize>>

machine_vars ==
    <<hotkey_manager, mode, hotkey_keys, pressed_keys, hotkey_active, toggle_recording,
      enabled>>

hotkey_vars == <<machine_vars, kl, ctl, held, last_ev, logging, events, fired, last_cb>>

main_vars == <<settings_open, transcribe_lock, last_fin>>

stop_vars == <<rs, rest_fin>>

rest_vars == <<history, stop_vars>>

vars ==
    <<coord_vars, api_vars, audio_vars, thread_vars, obs_vars, emit_len, hotkey_vars,
      main_vars, rest_vars>>

\* ------------------------------------------------------- the coordinator
\* reset_streaming(): the streaming state of a new session.
ResetState == [buf |-> 0, last |-> 0]

\* The twin coordinator before any finalize: freshly reset.
NoTwin == [buf |-> ResetState.buf, last |-> ResetState.last, found |-> FALSE]

\* Mutant: transcribe() clears the buffer and keeps the last-transcribed marker.
TranscribeEntry_KeepsMarker(buf, last) == [buf |-> 0, last |-> last]

\* transcribe(): the streaming state it leaves before it calls the backend.
TranscribeEntry(buf, last) == ResetState

\* Mutant: transcribe_chunk() without the startup threshold.
NeedsTranscription_NoMinimum(current_length, last) ==
    current_length - last >= TRANSCRIBE_INTERVAL_SAMPLES

\* Mutant: transcribe_chunk() without the re-transcribe interval.
NeedsTranscription_NoInterval(current_length, last) ==
    current_length >= MIN_SAMPLES_FOR_TRANSCRIPTION

\* transcribe_chunk(): the two thresholds that gate a backend pass.
NeedsTranscription(current_length, last) ==
    /\ current_length >= MIN_SAMPLES_FOR_TRANSCRIPTION
    /\ current_length - last >= TRANSCRIBE_INTERVAL_SAMPLES

\* Mutant: flush_streaming() without the minimum length.
FlushSkips_NoMinimum(ready, buf) == ~ready

\* flush_streaming(): the early returns before the backend pass.
FlushSkips(ready, buf) ==
    \/ ~ready
    \/ buf < min_flush_samples

\* The text a transcription method returns for a backend outcome: the text
\* of the first result, "" for no result and "" when the pass raised.
ResultText(o) == IF o.ok THEN o.text ELSE NoText

\* _last_transcribed_length after the backend call of transcribe_chunk():
\* the assignment follows the call inside the try block, so a pass that
\* raised leaves the marker where it was.
MarkerAfterPass_Always(ok, current_length, last) == current_length

MarkerAfterPass(ok, current_length, last) == IF ok THEN current_length ELSE last

\* transcribe_chunk(audio_chunk) run to completion on state (buf, last).
TranscribeChunk(ready, buf, last, chunk, o) ==
    IF ~ready
    THEN [buf |-> buf, last |-> last, invoked |-> 0, audio |-> 0, ret |-> NoText]
    ELSE LET current_length == buf + chunk IN
         IF ~NeedsTranscription(current_length, last)
         THEN [buf |-> current_length, last |-> last,
               invoked |-> 0, audio |-> 0, ret |-> NoText]
         ELSE [buf |-> current_length,
               last |-> MarkerAfterPass(o.ok, current_length, last),
               invoked |-> 1, audio |-> current_length, ret |-> ResultText(o)]

\* flush_streaming() run to completion.
FlushStreaming(ready, buf, o) ==
    IF FlushSkips(ready, buf)
    THEN [invoked |-> 0, audio |-> 0, ret |-> NoText]
    ELSE [invoked |-> 1, audio |-> buf, ret |-> ResultText(o)]

\* on_audio_chunk(): whether the text of a pass is broadcast as a partial.
BroadcastsChunkText(full_text) ==
    /\ full_text # NoText
    /\ Strip(full_text) # NoText
    /\ full_text # current_partial_text

\* Mutant: the flush text is deduplicated like a chunk text.
BroadcastsFlushText_Dedup(flush_text) ==
    /\ flush_text # NoText
    /\ Strip(flush_text) # NoText
    /\ Strip(flush_text) # current_partial_text

\* on_hotkey_release(): whether the text of the flush is broadcast.
BroadcastsFlushText(flush_text) ==
    /\ flush_text # NoText
    /\ Strip(flush_text) # NoText

\* ----------------------------------------------------- the hotkey machine
MODE_PUSH_TO_TALK == "push_to_talk"

MODE_TOGGLE == "toggle"

Modes == {MODE_PUSH_TO_TALK, MODE_TOGGLE}

\* The keys the keyboard delivers to the listener.
Keys == {"ctrl_l", "ctrl_r", "shift_l", "space"}

NoKey == "none"

\* parse_key() on the key names offered here, which are lower case, stripped
\* and longer than one character: a KEY_MAP entry, or None.
parse_key(key_str) ==
    CASE key_str = "ctrl" -> "ctrl_l"
      [] key_str = "ctrl_l" -> "ctrl_l"
      [] key_str = "ctrl_r" -> "ctrl_r"
      [] key_str = "shift" -> "shift_l"
      [] key_str = "shift_l" -> "shift_l"
      [] key_str = "space" -> "space"
      [] OTHER -> NoKey

normalize_key(key) ==
    CASE key \in {"ctrl_l", "ctrl_r"} -> "ctrl_l"
      [] key \in {"shift_l", "shift_r"} -> "shift_l"
      [] OTHER -> key

\* The key lists offered to the constructor and to set_hotkey(): three keys,
\* one key, a right-hand modifier next to an unknown name, an unknown name
\* alone, no name.
Hotkeys ==
    { <<"ctrl", "shift", "space">>, <<"space">>, <<"ctrl_r", "bogus">>,
      <<"bogus">>, << >> }

\* set_hotkey(): the keys parsed from the list, normalized.
NewKeys(hotkey) ==
    { normalize_key(parse_key(hotkey[i])) :
        i \in {j \in DOMAIN hotkey : parse_key(hotkey[j]) # NoKey} }

\* Mutant: set_hotkey() accepts a list without a valid key.
SetHotkeyAccepts_Always(new_keys) == TRUE

\* set_hotkey(): a list without a valid key is refused.
SetHotkeyAccepts(new_keys) == new_keys # {}

\* Mutant: the press edge does not look at _hotkey_active.
PressEdge_IgnoresActive(active, keys, pressed) ==
    keys # {} /\ keys \subseteq pressed

\* Mutant: any hotkey key that is down makes a press edge.
PressEdge_AnyKey(active, keys, pressed) ==
    /\ ~active
    /\ keys \cap pressed # {}

\* _on_key_press(): the hotkey has just become fully pressed.
PressEdge(active, keys, pressed) ==
    /\ ~active
    /\ keys # {}
    /\ keys \subseteq pressed

\* Mutant: releasing a key never makes a release edge.
ReleaseEdge_Never(active, keys, normalized) == FALSE

\* Mutant: the release edge does not look at _hotkey_active.
ReleaseEdge_IgnoresActive(active, keys, normalized) == normalized \in keys

\* Mutant: the release edge does not look at the released key.
ReleaseEdge_AnyKey(active, keys, normalized) == active

\* _on_key_release(): a key of the active hotkey has been released.
ReleaseEdge(active, keys, normalized) ==
    /\ active
    /\ normalized \in keys

\* Mutant: a release edge calls on_release in both modes.
ReleaseFires_AnyMode(m) == TRUE

\* Mutant: a release edge calls on_release in toggle mode only.
ReleaseFires_ToggleOnly(m) == m = MODE_TOGGLE

\* _on_key_release(): the mode in which a release edge calls on_release.
ReleaseFires(m) == m = MODE_PUSH_TO_TALK

\* The fields of a HotkeyManager.
Machine ==
    [mode |-> mode, hotkey_keys |-> hotkey_keys, pressed_keys |-> pressed_keys,
     hotkey_active |-> hotkey_active, toggle_recording |-> toggle_recording,
     enabled |-> enabled]

\* The fields HotkeyManager.__init__ sets before it calls set_hotkey().
NewMachine ==
    [mode |-> MODE_PUSH_TO_TALK, hotkey_keys |-> {}, pressed_keys |-> {},
     hotkey_active |-> FALSE, toggle_recording |-> FALSE, enabled |-> TRUE]

NoEv ==
    [op |-> "none", key |-> NoKey, arg |-> {}, ret |-> TRUE, fired |-> << >>,
     before |-> NewMachine]

\* The locked part of _on_key_press(key): the pressed set and the flags it
\* leaves, and the callbacks it fires.
on_key_press(key) ==
    LET normalized == normalize_key(key)
        pressed == pressed_keys \cup {normalized}
    IN IF PressEdge(hotkey_active, hotkey_keys, pressed)
       THEN IF mode = MODE_TOGGLE
            THEN IF ~toggle_recording
                 THEN [pressed_keys |-> pressed, hotkey_active |-> TRUE,
                       toggle_recording |-> TRUE, fired |-> <<"on_press">>]
                 ELSE [pressed_keys |-> pressed, hotkey_active |-> TRUE,
                       toggle_recording |-> FALSE, fired |-> <<"on_release">>]
            ELSE [pressed_keys |-> pressed, hotkey_active |-> TRUE,
                  toggle_recording |-> toggle_recording, fired |-> <<"on_press">>]
       ELSE [pressed_keys |-> pressed, hotkey_active |-> hotkey_active,
             toggle_recording |-> toggle_recording, fired |-> << >>]

\* The locked part of _on_key_release(key).
on_key_release(key) ==
    LET normalized == normalize_key(key)
        pressed == pressed_keys \ {normalized}
    IN IF ReleaseEdge(hotkey_active, hotkey_keys, normalized)
       THEN [pressed_keys |-> pressed, hotkey_active |-> FALSE,
             toggle_recording |-> toggle_recording,
             fired |-> IF ReleaseFires(mode) THEN <<"on_release">> ELSE << >>]
       ELSE [pressed_keys |-> pressed, hotkey_active |-> hotkey_active,
             toggle_recording |-> toggle_recording, fired |-> << >>]

\* A key handler that returns at once because the manager is disabled.
Ignored ==
    [pressed_keys |-> pressed_keys, hotkey_active |-> hotkey_active,
     toggle_recording |-> toggle_recording, fired |-> << >>]

NoOp ==
    [op |-> "none", chunk |-> 0, invoked |-> 0, audio |-> 0, ok |-> TRUE,
     answer |-> NoText, ret |-> NoText, emitted |-> << >>, buf_before |-> 0, last_before |-> 0,
     prev_emit |-> NoText, prev_inv |-> -1, prev_inv_ok |-> -1,
     twin_invoked |-> 0, twin_audio |-> 0, twin_ret |-> NoText]

Init ==
    /\ model_ready = FALSE
    /\ streaming_buffer = 0
    /\ last_transcribed_length = 0
    /\ current_partial_text = NoText
    /\ is_recording = FALSE
    /\ status = "loading"
    /\ audio_recording = FALSE
    /\ stream_open = FALSE
    /\ audio_buffer = << >>
    /\ hk = [pc |-> "idle"]
    /\ au = [pc |-> "idle", current_length |-> 0]
    /\ workers = << >>
    /\ model_calls = {}
    /\ sessions = 0
    /\ chunks = 0
    /\ last_op = NoOp
    /\ pushed = 0
    /\ short_pushed = 0
    /\ inv_len = -1
    /\ inv_ok_len = -1
    /\ prev_emit = NoText
    /\ twin = NoTwin
    /\ after_finalize = FALSE
    /\ emit_len = 0
    /\ hotkey_manager = "none"
    /\ mode = NewMachine.mode
    /\ hotkey_keys = NewMachine.hotkey_keys
    /\ pressed_keys = NewMachine.pressed_keys
    /\ hotkey_active = NewMachine.hotkey_active
    /\ toggle_recording = NewMachine.toggle_recording
    /\ enabled = NewMachine.enabled
    /\ kl = [pc |-> "idle", op |-> "none", key |-> NoKey]
    /\ ctl = "idle"
    /\ held = {}
    /\ last_ev = NoEv
    /\ logging = FALSE
    /\ events = << >>
    /\ fired = << >>
    /\ last_cb = "none"
    /\ settings_open = FALSE
    /\ transcribe_lock = 0
    /\ last_fin = "none"
    /\ history = << >>
    /\ rs = [pc |-> "idle"]
    /\ rest_fin = << >>

\* _load_model(): the model becomes available and "ready" is broadcast.
ModelLoaded ==
    /\ ~model_ready
    /\ model_ready' = TRUE
    /\ status' = "ready"
    /\ UNCHANGED <<streaming_buffer, last_transcribed_length, current_partial_text,
                   is_recording, audio_vars, thread_vars, obs_vars, emit_len>>
    /\ UNCHANGED hotkey_vars
    /\ UNCHANGED main_vars
    /\ UNCHANGED rest_vars

\* ----------------------------------------------- SpecCoord: one caller
\* A session starts: the partial text is cleared and reset_streaming() runs.
CoordReset ==
    /\ current_partial_text' = NoText
    /\ streaming_buffer' = ResetState.buf
    /\ last_transcribed_length' = ResetState.last
    /\ last_op' = [NoOp EXCEPT !.op = "reset",
                               !.buf_before = streaming_buffer,
                               !.last_before = last_transcribed_length]
    /\ pushed' = 0
    /\ short_pushed' = 0
    /\ inv_len' = -1
    /\ inv_ok_len' = -1
    /\ prev_emit' = NoText
    /\ twin' = NoTwin
    /\ after_finalize' = FALSE
    /\ UNCHANGED <<model_ready, is_recording, status, audio_vars, thread_vars,
                   emit_len>>
    /\ UNCHANGED hotkey_vars
    /\ UNCHANGED main_vars
    /\ UNCHANGED rest_vars

\* pushChunk: transcribe_chunk(chunk), then the broadcast decision of
\* on_audio_chunk on the text it returned.
CoordPushChunk(chunk, o) ==
    /\ pushed + chunk <= MaxSamples
    /\ chunk = CHUNK_SIZE => short_pushed < MaxShortChunks
    /\ LET r == TranscribeChunk(model_ready, streaming_buffer,
                                last_transcribed_length, chunk, o)
           t == IF after_finalize
                THEN TranscribeChunk(model_ready, twin.buf, twin.last, chunk, o)
                ELSE [buf |-> twin.buf, last |-> twin.last,
                      invoked |-> 0, audio |-> 0, ret |-> NoText]
           emit == BroadcastsChunkText(r.ret)
       IN /\ streaming_buffer' = r.buf
          /\ last_transcribed_length' = r.last
          /\ current_partial_text' =
                IF emit THEN Strip(r.ret) ELSE current_partial_text
          /\ twin' = [twin EXCEPT !.buf = t.buf, !.last = t.last]
          /\ last_op' = [op |-> "push", chunk |-> chunk, invoked |-> r.invoked,
                         audio |-> r.audio, ok |-> (r.invoked = 0 \/ o.ok),
                         answer |-> IF r.invoked = 1 THEN o.text ELSE NoText,
                         ret |-> r.ret,
                         emitted |-> IF emit THEN <<Strip(r.ret)>> ELSE << >>,
                         buf_before |-> streaming_buffer,
                         last_before |-> last_transcribed_length,
                         prev_emit |-> prev_emit,
                         prev_inv |-> inv_len, prev_inv_ok |-> inv_ok_len,
                         twin_invoked |-> t.invoked, twin_audio |-> t.audio,
                         twin_ret |-> t.ret]
          /\ prev_emit' = IF emit THEN Strip(r.ret) ELSE prev_emit
          /\ inv_len' = IF r.invoked = 1 THEN r.audio ELSE inv_len
          /\ inv_ok_len' = IF r.invoked = 1 /\ o.ok THEN r.audio ELSE inv_ok_len
    /\ pushed' = pushed + chunk
    /\ short_pushed' = IF chunk = CHUNK_SIZE THEN short_pushed + 1 ELSE short_pushed
    /\ UNCHANGED <<model_ready, is_recording, status, audio_vars, thread_vars,
                   after_finalize, emit_len>>
    /\ UNCHANGED hotkey_vars
    /\ UNCHANGED main_vars
    /\ UNCHANGED rest_vars

\* flush: flush_streaming(), then the broadcast decision of on_hotkey_release.
CoordFlush(o) ==
    /\ LET r == FlushStreaming(model_ready, streaming_buffer, o)
           emit == BroadcastsFlushText(r.ret)
       IN /\ current_partial_text' =
                IF emit THEN Strip(r.ret) ELSE current_partial_text
          /\ last_op' = [NoOp EXCEPT !.op = "flush", !.invoked = r.invoked,
                                     !.audio = r.audio, !.ok = (r.invoked = 0 \/ o.ok),
                                     !.answer = IF r.invoked = 1 THEN o.text ELSE NoText,
                                     !.ret = r.ret,
                                     !.emitted = IF emit THEN <<Strip(r.ret)>> ELSE << >>,
                                     !.buf_before = streaming_buffer,
                                     !.last_before = last_transcribed_length,
                                     !.prev_emit = prev_emit]
          /\ prev_emit' = IF emit THEN Strip(r.ret) ELSE prev_emit
    /\ UNCHANGED <<coord_vars, is_recording, status, audio_vars, thread_vars,
                   pushed, short_pushed, inv_len, inv_ok_len, twin, after_finalize,
                   emit_len>>
    /\ UNCHANGED hotkey_vars
    /\ UNCHANGED main_vars
    /\ UNCHANGED rest_vars

\* finalize: transcribe(audio_data) on a separately captured recording.
CoordFinalize(audio, o) ==
    /\ model_ready
    /\ LET e == TranscribeEntry(streaming_buffer, last_transcribed_length)
       IN /\ streaming_buffer' = e.buf
          /\ last_transcribed_length' = e.last
    /\ last_op' = [NoOp EXCEPT !.op = "finalize", !.invoked = 1, !.audio = audio,
                               !.ok = o.ok, !.answer = o.text, !.ret = ResultText(o),
                               !.buf_before = streaming_buffer,
                               !.last_before = last_transcribed_length,
                               !.prev_emit = prev_emit]
    /\ twin' = [buf |-> ResetState.buf, last |-> ResetState.last,
                 found |-> last_transcribed_length > 0]
    /\ after_finalize' = TRUE
    /\ pushed' = 0
    /\ short_pushed' = 0
    /\ inv_len' = -1
    /\ inv_ok_len' = -1
    /\ UNCHANGED <<model_ready, api_vars, audio_vars, thread_vars, prev_emit,
                   emit_len>>
    /\ UNCHANGED hotkey_vars
    /\ UNCHANGED main_vars
    /\ UNCHANGED rest_vars

NextCoord ==
    \/ ModelLoaded
    \/ CoordReset
    \/ \E chunk \in ChunkSizes, o \in ModelOutcomes : CoordPushChunk(chunk, o)
    \/ \E o \in ModelOutcomes : CoordFlush(o)
    \/ \E audio \in ChunkSizes, o \in ModelOutcomes : CoordFinalize(audio, o)

SpecCoord == Init /\ [][NextCoord]_vars

\* ------------------------------------------- Spec: the API server threads
\* Who makes a backend invocation: the audio callback, the flush of the
\* hotkey listener, or finalize worker w.
ChunkCaller == [kind |-> "chunk", id |-> 0]

FlushCaller == [kind |-> "flush", id |-> 0]

FinalizeCaller(w) == [kind |-> "finalize", id |-> w]

\* Backend invocations in progress, without the one made by `by`.
CallsWithout(by) == {c \in model_calls : c.by # by}

\* Finalize workers between the start of transcribe_and_paste and its end.
PipelinesRunning ==
    {w \in DOMAIN workers : workers[w].pc \in {"fin_call", "sleep"}}

\* The early return of on_hotkey_release(): no recording is in progress.
ReleaseIgnored_Never(rec) == FALSE

ReleaseIgnored(rec) == ~rec

\* stream.stop() in stop_recording() returns once the audio callback, at
\* position pc, is not running.
StreamStopReturns_AtOnce(pc) == TRUE

StreamStopReturns(pc) == pc = "idle"

\* Where stop_recording() goes after its first test: on to stream.stop()
\* when the source is armed, and otherwise straight back with None.
StopEntry(armed) == IF armed THEN "stopping" ELSE "not_armed"

\* Whether a stream handle is left after the stop()/close() of
\* stop_recording(), which returned (stop_ok) or raised: the finally block
\* drops the handle either way.
StreamAfterStop_KeptOnError(stop_ok) == ~stop_ok

StreamAfterStop(stop_ok) == FALSE

\* The test on what stop_recording() returned: None for an empty buffer, or
\* an array without samples.
CaptureEmpty_Never(buf) == FALSE

CaptureEmpty(buf) == buf = << >>

\* _audio_buffer after stop_recording() handed over the capture buf.
BufferAfterStop_Kept(buf) == buf

BufferAfterStop(buf) == << >>

\* on_hotkey_press(): the early returns, the reset of the streaming state,
\* and AudioCapture.start_recording(), whose stream starts (device_ok) or
\* raises; when it started, is_recording is set and "recording" broadcast.
on_hotkey_press(device_ok) ==
    /\ hk.pc = "idle"
    /\ sessions < MaxSessions
    /\ IF ~model_ready \/ is_recording
       THEN UNCHANGED <<coord_vars, api_vars, audio_vars, thread_vars>>
       ELSE /\ current_partial_text' = NoText
            /\ streaming_buffer' = ResetState.buf
            /\ last_transcribed_length' = ResetState.last
            /\ IF audio_recording
               THEN UNCHANGED <<is_recording, status, audio_vars, thread_vars>>
               ELSE /\ audio_buffer' = << >>
                    /\ IF device_ok
                       THEN /\ stream_open' = TRUE
                            /\ audio_recording' = TRUE
                            /\ is_recording' = TRUE
                            /\ status' = "recording"
                            /\ sessions' = sessions + 1
                            /\ chunks' = 0
                       ELSE UNCHANGED <<stream_open, audio_recording, is_recording,
                                        status, sessions, chunks>>
                    /\ UNCHANGED <<hk, au, workers, model_calls>>
            /\ UNCHANGED model_ready
    /\ emit_len' = IF sessions' = sessions THEN emit_len ELSE 0
    /\ UNCHANGED obs_vars
    /\ UNCHANGED main_vars
    /\ UNCHANGED rest_vars

\* on_hotkey_press() called from outside the key listener of this module.
HotkeyPress(device_ok) ==
    /\ on_hotkey_press(device_ok)
    /\ UNCHANGED hotkey_vars

\* _audio_callback() with one chunk of CHUNK_SIZE samples, through
\* on_audio_chunk() and transcribe_chunk() up to the backend call.
AudioCallback ==
    /\ stream_open
    /\ au.pc = "idle"
    /\ audio_recording
    /\ chunks < MaxChunks
    /\ chunks' = chunks + 1
    /\ audio_buffer' = Append(audio_buffer, CHUNK_SIZE)
    /\ IF ~model_ready \/ ~is_recording
       THEN UNCHANGED <<streaming_buffer, au, model_calls>>
       ELSE LET current_length == streaming_buffer + CHUNK_SIZE IN
            /\ streaming_buffer' = current_length
            /\ IF NeedsTranscription(current_length, last_transcribed_length)
               THEN /\ au' = [pc |-> "chunk_call", current_length |-> current_length]
                    /\ model_calls' = model_calls \cup
                          {[by |-> ChunkCaller, audio |-> current_length]}
               ELSE UNCHANGED <<au, model_calls>>
    /\ UNCHANGED <<model_ready, last_transcribed_length, api_vars, audio_recording,
                   stream_open, hk, workers, sessions, obs_vars, emit_len>>
    /\ UNCHANGED hotkey_vars
    /\ UNCHANGED main_vars
    /\ UNCHANGED rest_vars

\* The backend call of transcribe_chunk() returns or raises; on_audio_chunk()
\* broadcasts the text.
AudioCallbackReturn(o) ==
    /\ au.pc = "chunk_call"
    /\ model_calls' = CallsWithout(ChunkCaller)
    /\ last_transcribed_length' =
          MarkerAfterPass(o.ok, au.current_length, last_transcribed_length)
    /\ current_partial_text' =
          IF BroadcastsChunkText(ResultText(o))
          THEN Strip(ResultText(o)) ELSE current_partial_text
    /\ emit_len' =
          IF BroadcastsChunkText(ResultText(o)) THEN au.current_length ELSE emit_len
    /\ au' = [pc |-> "idle", current_length |-> 0]
    /\ UNCHANGED <<model_ready, streaming_buffer, is_recording, status, audio_vars,
                   hk, workers, sessions, chunks, obs_vars>>
    /\ UNCHANGED hotkey_vars
    /\ UNCHANGED main_vars
    /\ UNCHANGED rest_vars

\* on_hotkey_release(), up to the backend call of flush_streaming(), or up
\* to stream.stop() when the flush makes no call.
on_hotkey_release ==
    /\ hk.pc = "idle"
    /\ IF ReleaseIgnored(is_recording)
       THEN UNCHANGED <<audio_recording, hk, model_calls>>
       ELSE IF FlushSkips(model_ready, streaming_buffer)
            THEN /\ audio_recording' = FALSE
                 /\ hk' = [pc |-> StopEntry(audio_recording)]
                 /\ UNCHANGED model_calls
            ELSE /\ model_calls' = model_calls \cup
                       {[by |-> FlushCaller, audio |-> streaming_buffer]}
                 /\ hk' = [pc |-> "flush_call"]
                 /\ UNCHANGED audio_recording
    /\ UNCHANGED <<coord_vars, api_vars, stream_open, audio_buffer, au, workers,
                   sessions, chunks, obs_vars, emit_len>>
    /\ UNCHANGED main_vars
    /\ UNCHANGED rest_vars

\* on_hotkey_release() called from outside the key listener of this module.
HotkeyRelease ==
    /\ on_hotkey_release
    /\ UNCHANGED hotkey_vars

\* The samples flush_streaming() handed to the backend call in progress.
FlushAudio == (CHOOSE c \in model_calls : c.by = FlushCaller).audio

\* The backend call of flush_streaming() returns or raises; the text is
\* broadcast and stop_recording() begins.
HotkeyFlushReturn(o) ==
    /\ hk.pc = "flush_call"
    /\ model_calls' = CallsWithout(FlushCaller)
    /\ current_partial_text' =
          IF BroadcastsFlushText(ResultText(o))
          THEN Strip(ResultText(o)) ELSE current_partial_text
    /\ emit_len' =
          IF BroadcastsFlushText(ResultText(o)) THEN FlushAudio ELSE emit_len
    /\ audio_recording' = FALSE
    /\ hk' = [pc |-> StopEntry(audio_recording)]
    /\ UNCHANGED <<coord_vars, is_recording, status, stream_open, audio_buffer, au,
                   workers, sessions, chunks, obs_vars>>
    /\ UNCHANGED hotkey_vars
    /\ UNCHANGED main_vars
    /\ UNCHANGED rest_vars

\* stream.stop() returns once no callback is running, or raises (~stop_ok)
\* without that guarantee, the exception being caught; stop_recording()
\* hands over the capture and on_hotkey_release() starts the finalize worker.
HotkeyStopped(stop_ok) ==
    /\ hk.pc = "stopping"
    /\ stop_ok => StreamStopReturns(au.pc)
    /\ stream_open' = StreamAfterStop(stop_ok)
    /\ audio_buffer' = BufferAfterStop(audio_buffer)
    /\ is_recording' = FALSE
    /\ hk' = [pc |-> "idle"]
    /\ IF CaptureEmpty(audio_buffer)
       THEN /\ status' = "ready"
            /\ UNCHANGED workers
       ELSE /\ workers' = Append(workers,
                  [pc |-> "started", audio |-> SumSeq(audio_buffer),
                   text |-> NoText, session |-> sessions])
            /\ UNCHANGED status
    /\ emit_len' = 0
    /\ UNCHANGED <<coord_vars, current_partial_text, audio_recording, au,
                   model_calls, sessions, chunks, obs_vars>>
    /\ UNCHANGED hotkey_vars
    /\ UNCHANGED main_vars
    /\ UNCHANGED rest_vars

\* A worker thread that returned: its locals are gone.
WorkerDone(rec) ==
    [pc |-> "done", audio |-> 0, text |-> NoText, session |-> rec.session]

\* transcribe_and_paste() up to the backend call of transcribe().
WorkerStart(w) ==
    /\ workers[w].pc = "started"
    /\ IF ~model_ready
       THEN /\ status' = "error"
            /\ workers' = [workers EXCEPT ![w] = WorkerDone(@)]
            /\ UNCHANGED <<streaming_buffer, last_transcribed_length, model_calls>>
       ELSE LET e == TranscribeEntry(streaming_buffer, last_transcribed_length) IN
            /\ status' = "transcribing"
            /\ streaming_buffer' = e.buf
            /\ last_transcribed_length' = e.last
            /\ model_calls' = model_calls \cup {[by |-> FinalizeCaller(w), audio |-> workers[w].audio]}
            /\ workers' = [workers EXCEPT ![w].pc = "fin_call"]
    /\ UNCHANGED <<model_ready, current_partial_text, is_recording, audio_vars,
                   hk, au, sessions, chunks, obs_vars, emit_len>>
    /\ UNCHANGED hotkey_vars
    /\ UNCHANGED main_vars
    /\ UNCHANGED rest_vars

\* The backend call of transcribe() returns or raises; without speech the
\* worker ends, otherwise the text is replaced, stored, copied and the worker
\* sleeps before pasting. apply_replacements(), add_to_history() and
\* pyperclip.copy() run outside any try block: when one of them raises
\* (~stored) the thread ends there.
WorkerTranscribed(w, o, stored) ==
    /\ workers[w].pc = "fin_call"
    /\ model_calls' = CallsWithout(FinalizeCaller(w))
    /\ IF Strip(ResultText(o)) = NoText
       THEN /\ status' = "ready"
            /\ workers' = [workers EXCEPT ![w] = WorkerDone(@)]
       ELSE /\ workers' = IF stored
                          THEN [workers EXCEPT ![w].pc = "sleep",
                                               ![w].text = ResultText(o)]
                          ELSE [workers EXCEPT ![w] = WorkerDone(@)]
            /\ UNCHANGED status
    /\ UNCHANGED <<coord_vars, current_partial_text, is_recording, audio_vars,
                   hk, au, sessions, chunks, obs_vars, emit_len>>
    /\ UNCHANGED hotkey_vars
    /\ UNCHANGED main_vars
    /\ UNCHANGED rest_vars

\* transcribe_and_paste() after the sleep: paste, broadcast "ready"; when
\* the keyboard controller raises (~pasted) the thread ends before the
\* broadcast.
WorkerPaste(w, pasted) ==
    /\ workers[w].pc = "sleep"
    /\ status' = IF pasted THEN "ready" ELSE status
    /\ workers' = [workers EXCEPT ![w] = WorkerDone(@)]
    /\ UNCHANGED <<coord_vars, current_partial_text, is_recording, audio_vars,
                   hk, au, model_calls, sessions, chunks, obs_vars, emit_len>>
    /\ UNCHANGED hotkey_vars
    /\ UNCHANGED main_vars
    /\ UNCHANGED rest_vars

Next ==
    \/ ModelLoaded
    \/ \E device_ok \in BOOLEAN : HotkeyPress(device_ok)
    \/ AudioCallback
    \/ \E o \in ThreadOutcomes : AudioCallbackReturn(o)
    \/ HotkeyRelease
    \/ \E o \in ThreadOutcomes : HotkeyFlushReturn(o)
    \/ \E stop_ok \in BOOLEAN : HotkeyStopped(stop_ok)
    \/ \E w \in DOMAIN workers : WorkerStart(w)
    \/ \E w \in DOMAIN workers, o \in ThreadOutcomes, stored \in BOOLEAN :
           WorkerTranscribed(w, o, stored)
    \/ \E w \in DOMAIN workers, pasted \in BOOLEAN : WorkerPaste(w, pasted)

Spec == Init /\ [][Next]_vars

\* SpecLive: the same threads, where only the first recording session is long
\* enough for chunk passes and a flush pass.
NextLive == Next /\ (sessions' > 1 => chunks' <= MaxLaterChunks)

SpecLive == Init /\ [][NextLive]_vars

\* ------------------------------- SpecMain: the desktop application threads
\* State of the API server that the desktop application does not have.
server_vars ==
    <<streaming_buffer, last_transcribed_length, current_partial_text, is_recording,
      au, obs_vars, emit_len, rest_vars>>

\* _on_model_loaded(): the model is available and the status becomes Ready.
OnModelLoaded ==
    /\ ~model_ready
    /\ model_ready' = TRUE
    /\ status' = "ready"
    /\ UNCHANGED <<audio_vars, hk, workers, model_calls, sessions, chunks>>
    /\ UNCHANGED <<server_vars, hotkey_vars, main_vars>>

\* _open_settings(): the early return, the flag, and HotkeyManager.disable().
OpenSettings ==
    /\ ~settings_open
    /\ settings_open' = TRUE
    /\ enabled' = FALSE
    /\ pressed_keys' = {}
    /\ hotkey_active' = FALSE
    /\ toggle_recording' = FALSE
    /\ UNCHANGED <<hotkey_manager, mode, hotkey_keys, kl, ctl, held, last_ev, logging,
                   events, fired, last_cb>>
    /\ UNCHANGED <<model_ready, status, audio_vars, thread_vars, server_vars,
                   transcribe_lock, last_fin>>

\* on_close() of the settings dialog: the flag and HotkeyManager.enable().
CloseSettings ==
    /\ settings_open
    /\ settings_open' = FALSE
    /\ enabled' = TRUE
    /\ UNCHANGED <<hotkey_manager, mode, hotkey_keys, pressed_keys, hotkey_active,
                   toggle_recording, kl, ctl, held, last_ev, logging, events, fired,
                   last_cb>>
    /\ UNCHANGED <<model_ready, status, audio_vars, thread_vars, server_vars,
                   transcribe_lock, last_fin>>

\* The early returns of _on_hotkey_press(): the settings dialog is open, or
\* the transcriber is not ready.
PressIgnored_OnlyUnready(settings, ready) == ~ready

PressIgnored_WhileFinalizing(settings, ready) ==
    settings \/ ~ready \/ transcribe_lock # 0

PressIgnored(settings, ready) == settings \/ ~ready

\* _on_hotkey_press(): the early returns, the status, then
\* AudioCapture.start_recording(), whose result is not looked at: it returns
\* False when the source is armed and when the stream does not start
\* (~device_ok). The callback is fired by the listener thread, which can
\* still be inside a key event when _open_settings() sets its flag.
MainPress(device_ok) ==
    /\ hk.pc = "idle"
    /\ sessions < MaxSessions
    /\ IF PressIgnored(settings_open, model_ready)
       THEN UNCHANGED <<status, audio_vars, sessions, chunks>>
       ELSE /\ status' = "recording"
            /\ IF audio_recording
               THEN UNCHANGED <<audio_vars, sessions, chunks>>
               ELSE /\ audio_buffer' = << >>
                    /\ IF device_ok
                       THEN /\ stream_open' = TRUE
                            /\ audio_recording' = TRUE
                            /\ sessions' = sessions + 1
                            /\ chunks' = 0
                       ELSE UNCHANGED <<stream_open, audio_recording, sessions, chunks>>
    /\ UNCHANGED <<model_ready, hk, workers, model_calls>>
    /\ UNCHANGED <<server_vars, hotkey_vars, main_vars>>

\* _audio_callback() of the desktop application: the chunk is kept while the
\* source is recording.
MainAudioCallback ==
    /\ stream_open
    /\ chunks < MaxFrames
    /\ chunks' = chunks + 1
    /\ audio_buffer' = IF audio_recording
                       THEN Append(audio_buffer, CHUNK_SIZE) ELSE audio_buffer
    /\ UNCHANGED <<model_ready, status, audio_recording, stream_open, hk, workers,
                   model_calls, sessions>>
    /\ UNCHANGED <<server_vars, hotkey_vars, main_vars>>

\* The early returns of _on_hotkey_release().
MainReleaseIgnored(settings, ready, recording) == settings \/ ~ready \/ ~recording

\* _on_hotkey_release() up to stream.stop(): the early returns, the status,
\* and the flag of stop_recording().
MainRelease ==
    /\ hk.pc = "idle"
    /\ IF MainReleaseIgnored(settings_open, model_ready, audio_recording)
       THEN UNCHANGED <<status, audio_recording, hk>>
       ELSE /\ status' = "transcribing"
            /\ audio_recording' = FALSE
            /\ hk' = [pc |-> "stopping"]
    /\ UNCHANGED <<model_ready, stream_open, audio_buffer, workers, model_calls,
                   sessions, chunks>>
    /\ UNCHANGED <<server_vars, hotkey_vars, main_vars>>

\* What _on_hotkey_release() waits for after stop_recording(): nothing, it
\* takes no lock and starts a thread for the transcription.
ReleaseReturns_WhenUnlocked(lock) == lock = 0

ReleaseReturns(lock) == TRUE

\* stream.stop() returned or raised (~stop_ok), the exception being caught;
\* stop_recording() hands over the capture and _on_hotkey_release() sets
\* Ready when it is empty, and otherwise starts a thread running
\* _transcribe_and_type().
MainStopped(stop_ok) ==
    /\ hk.pc = "stopping"
    /\ ReleaseReturns(transcribe_lock)
    /\ stream_open' = StreamAfterStop(stop_ok)
    /\ audio_buffer' = BufferAfterStop(audio_buffer)
    /\ hk' = [pc |-> "idle"]
    /\ IF CaptureEmpty(audio_buffer)
       THEN /\ status' = "ready"
            /\ UNCHANGED workers
       ELSE /\ workers' = Append(workers,
                  [pc |-> "started", audio |-> SumSeq(audio_buffer),
                   text |-> NoText, session |-> sessions])
            /\ UNCHANGED status
    /\ UNCHANGED <<model_ready, audio_recording, model_calls, sessions, chunks>>
    /\ UNCHANGED <<server_vars, hotkey_vars, main_vars>>

\* _transcribe_and_type() takes _transcribe_lock and calls transcribe(),
\* which raises at once when no model is loaded: the handler of
\* _transcribe_and_type() prints and its finally block sets Ready.
MainWorkerStart(w) ==
    /\ workers[w].pc = "started"
    /\ transcribe_lock = 0
    /\ IF ~model_ready
       THEN /\ status' = "ready"
            /\ workers' = [workers EXCEPT ![w] = WorkerDone(@)]
            /\ last_fin' = "failed"
            /\ UNCHANGED <<transcribe_lock, model_calls>>
       ELSE /\ transcribe_lock' = w
            /\ model_calls' = model_calls \cup
                  {[by |-> FinalizeCaller(w), audio |-> workers[w].audio]}
            /\ workers' = [workers EXCEPT ![w].pc = "fin_call"]
            /\ UNCHANGED <<status, last_fin>>
    /\ UNCHANGED <<model_ready, audio_vars, hk, sessions, chunks, settings_open>>
    /\ UNCHANGED <<server_vars, hotkey_vars>>

\* The backend call of transcribe() returns or raises (transcribe() then
\* returns ""); a text is typed; the finally block sets Ready and the lock is
\* released.
MainWorkerTranscribed(w, o) ==
    /\ workers[w].pc = "fin_call"
    /\ model_calls' = CallsWithout(FinalizeCaller(w))
    /\ status' = "ready"
    /\ workers' = [workers EXCEPT ![w] = WorkerDone(@)]
    /\ transcribe_lock' = 0
    /\ last_fin' = IF o.ok THEN "ok" ELSE "failed"
    /\ UNCHANGED <<model_ready, audio_vars, hk, sessions, chunks, settings_open>>
    /\ UNCHANGED <<server_vars, hotkey_vars>>

NextMain ==
    \/ OnModelLoaded
    \/ OpenSettings
    \/ CloseSettings
    \/ \E device_ok \in BOOLEAN : MainPress(device_ok)
    \/ MainAudioCallback
    \/ MainRelease
    \/ \E stop_ok \in BOOLEAN : MainStopped(stop_ok)
    \/ \E w \in DOMAIN workers : MainWorkerStart(w)
    \/ \E w \in DOMAIN workers, o \in ThreadOutcomes : MainWorkerTranscribed(w, o)

SpecMain == Init /\ [][NextMain]_vars

\* --------------------------------- SpecHotkey: the hotkey machine, one caller
program_vars ==
    <<coord_vars, api_vars, audio_vars, thread_vars, obs_vars, emit_len, main_vars,
      rest_vars>>

\* HotkeyManager(hotkey, mode=m) followed by start().
HotkeyManagerStart(hotkey, m) ==
    /\ hotkey_manager = "none"
    /\ hotkey_manager' = "started"
    /\ mode' = m
    /\ hotkey_keys' =
          IF SetHotkeyAccepts(NewKeys(hotkey)) THEN NewKeys(hotkey)
          ELSE NewMachine.hotkey_keys
    /\ pressed_keys' = NewMachine.pressed_keys
    /\ hotkey_active' = NewMachine.hotkey_active
    /\ toggle_recording' = NewMachine.toggle_recording
    /\ enabled' = NewMachine.enabled
    /\ last_ev' = [NoEv EXCEPT !.op = "init", !.arg = NewKeys(hotkey),
                               !.ret = SetHotkeyAccepts(NewKeys(hotkey))]
    /\ logging' = TRUE
    /\ events' = << >>
    /\ fired' = << >>
    /\ last_cb' = "none"
    /\ UNCHANGED <<kl, ctl, held, program_vars>>

\* What a key handler leaves when it returns with result r.
KeyHandled(op, key, r) ==
    /\ pressed_keys' = r.pressed_keys
    /\ hotkey_active' = r.hotkey_active
    /\ toggle_recording' = r.toggle_recording
    /\ last_ev' = [NoEv EXCEPT !.op = op, !.key = key, !.fired = r.fired,
                               !.before = Machine]
    /\ last_cb' = IF r.fired = << >> \/ last_cb = "off"
                  THEN last_cb ELSE r.fired[Len(r.fired)]
    /\ UNCHANGED <<hotkey_manager, mode, hotkey_keys, enabled>>

\* The record of key events grows by one event and the callbacks it fired;
\* it ends with an auto-repeat of a held key.
Logged(op, key, r) ==
    LET keep == /\ logging
                /\ Len(events) < MaxEvents
                /\ op = "press" => key \notin held
    IN
    /\ logging' = keep
    /\ events' = IF keep THEN Append(events, [op |-> op, key |-> key]) ELSE << >>
    /\ fired' =
          IF keep
          THEN fired \o [i \in 1..Len(r.fired) |->
                            [cb |-> r.fired[i], at |-> Len(events) + 1]]
          ELSE << >>

\* The record of key events ends.
NotLogged ==
    /\ logging' = FALSE
    /\ events' = << >>
    /\ fired' = << >>

\* The listener delivers a key-down (a first press or an auto-repeat) and
\* _on_key_press(key) runs to its end.
KeyDown(key) ==
    /\ hotkey_manager = "started"
    /\ held' = held \cup {key}
    /\ LET r == IF enabled THEN on_key_press(key) ELSE Ignored
       IN KeyHandled("press", key, r) /\ Logged("press", key, r)
    /\ UNCHANGED <<kl, ctl, program_vars>>

\* The listener delivers the key-up of a held key and _on_key_release(key)
\* runs to its end.
KeyUp(key) ==
    /\ hotkey_manager = "started"
    /\ key \in held
    /\ held' = held \ {key}
    /\ LET r == IF enabled THEN on_key_release(key) ELSE Ignored
       IN KeyHandled("release", key, r) /\ Logged("release", key, r)
    /\ UNCHANGED <<kl, ctl, program_vars>>

\* set_mode(m)
SetMode(m) ==
    /\ hotkey_manager = "started"
    /\ mode' = m
    /\ toggle_recording' = FALSE
    /\ hotkey_active' = FALSE
    /\ last_ev' = [NoEv EXCEPT !.op = "set_mode", !.before = Machine]
    /\ last_cb' = "off"
    /\ NotLogged
    /\ UNCHANGED <<hotkey_manager, hotkey_keys, pressed_keys, enabled, kl, ctl, held,
                   program_vars>>

\* set_hotkey(hotkey)
SetHotkey(hotkey) ==
    /\ hotkey_manager = "started"
    /\ LET new_keys == NewKeys(hotkey) IN
       /\ IF SetHotkeyAccepts(new_keys)
          THEN /\ hotkey_keys' = new_keys
               /\ hotkey_active' = FALSE
          ELSE UNCHANGED <<hotkey_keys, hotkey_active>>
       /\ last_ev' = [NoEv EXCEPT !.op = "set_hotkey", !.arg = new_keys,
                                  !.ret = SetHotkeyAccepts(new_keys),
                                  !.before = Machine]
    /\ last_cb' = "off"
    /\ NotLogged
    /\ UNCHANGED <<hotkey_manager, mode, pressed_keys, toggle_recording, enabled,
                   kl, ctl, held, program_vars>>

\* enable()
Enable ==
    /\ hotkey_manager = "started"
    /\ ctl = "idle"
    /\ enabled' = TRUE
    /\ last_ev' = [NoEv EXCEPT !.op = "enable", !.before = Machine]
    /\ last_cb' = "off"
    /\ NotLogged
    /\ UNCHANGED <<hotkey_manager, mode, hotkey_keys, pressed_keys, hotkey_active,
                   toggle_recording, kl, ctl, held, program_vars>>

\* disable()
Disable ==
    /\ hotkey_manager = "started"
    /\ enabled' = FALSE
    /\ hotkey_active' = FALSE
    /\ toggle_recording' = FALSE
    /\ pressed_keys' = {}
    /\ last_ev' = [NoEv EXCEPT !.op = "disable", !.before = Machine]
    /\ last_cb' = "off"
    /\ NotLogged
    /\ UNCHANGED <<hotkey_manager, mode, hotkey_keys, kl, ctl, held, program_vars>>

\* cancel_recording()
CancelRecording ==
    /\ hotkey_manager = "started"
    /\ toggle_recording' = FALSE
    /\ hotkey_active' = FALSE
    /\ last_ev' = [NoEv EXCEPT !.op = "cancel_recording", !.before = Machine]
    /\ last_cb' = "off"
    /\ NotLogged
    /\ UNCHANGED <<hotkey_manager, mode, hotkey_keys, pressed_keys, enabled, kl, ctl,
                   held, program_vars>>

NextHotkey ==
    \/ \E hotkey \in Hotkeys, m \in Modes : HotkeyManagerStart(hotkey, m)
    \/ \E key \in Keys : KeyDown(key)
    \/ \E key \in Keys : KeyUp(key)
    \/ \E m \in Modes : SetMode(m)
    \/ \E hotkey \in Hotkeys : SetHotkey(hotkey)
    \/ Enable
    \/ Disable
    \/ CancelRecording

SpecHotkey == Init /\ [][NextHotkey]_vars

\* ------------- SpecHotkeyThreads: the key listener and a caller of disable()
\* The listener thread enters _on_key_press(key): it returns at once when the
\* manager is disabled, and otherwise goes on to take the lock.
ListenerDown(key) ==
    /\ hotkey_manager = "started"
    /\ kl.pc = "idle"
    /\ held' = held \cup {key}
    /\ IF enabled
       THEN /\ kl' = [pc |-> "locked", op |-> "press", key |-> key]
            /\ UNCHANGED <<machine_vars, last_ev, last_cb>>
       ELSE /\ KeyHandled("press", key, Ignored)
            /\ UNCHANGED kl
    /\ NotLogged
    /\ UNCHANGED <<ctl, program_vars>>

\* The listener thread enters _on_key_release(key).
ListenerUp(key) ==
    /\ hotkey_manager = "started"
    /\ kl.pc = "idle"
    /\ key \in held
    /\ held' = held \ {key}
    /\ IF enabled
       THEN /\ kl' = [pc |-> "locked", op |-> "release", key |-> key]
            /\ UNCHANGED <<machine_vars, last_ev, last_cb>>
       ELSE /\ KeyHandled("release", key, Ignored)
            /\ UNCHANGED kl
    /\ NotLogged
    /\ UNCHANGED <<ctl, program_vars>>

\* The listener thread holds the lock and runs the rest of the handler,
\* callbacks included.
ListenerLocked ==
    /\ kl.pc = "locked"
    /\ LET r == IF kl.op = "press" THEN on_key_press(kl.key)
                ELSE on_key_release(kl.key)
       IN KeyHandled(kl.op, kl.key, r)
    /\ kl' = [pc |-> "idle", op |-> "none", key |-> NoKey]
    /\ UNCHANGED <<ctl, held, logging, events, fired, program_vars>>

\* disable(): _enabled = False, before the lock is taken.
DisableFlag ==
    /\ hotkey_manager = "started"
    /\ ctl = "idle"
    /\ enabled' = FALSE
    /\ ctl' = "disabling"
    /\ NotLogged
    /\ last_cb' = "off"
    /\ UNCHANGED <<hotkey_manager, mode, hotkey_keys, pressed_keys, hotkey_active,
                   toggle_recording, kl, held, last_ev, program_vars>>

\* disable(): the flags and the pressed set are cleared under the lock.
DisableClear ==
    /\ ctl = "disabling"
    /\ hotkey_active' = FALSE
    /\ toggle_recording' = FALSE
    /\ pressed_keys' = {}
    /\ ctl' = "idle"
    /\ last_ev' = [NoEv EXCEPT !.op = "disable", !.before = Machine]
    /\ last_cb' = "off"
    /\ UNCHANGED <<hotkey_manager, mode, hotkey_keys, enabled, kl, held, logging,
                   events, fired, program_vars>>

NextHotkeyThreads ==
    \/ \E hotkey \in Hotkeys, m \in Modes : HotkeyManagerStart(hotkey, m)
    \/ \E key \in Keys : ListenerDown(key)
    \/ \E key \in Keys : ListenerUp(key)
    \/ ListenerLocked
    \/ DisableFlag
    \/ DisableClear
    \/ Enable

SpecHotkeyThreads == Init /\ [][NextHotkeyThreads]_vars

\* ----------- SpecToggle: the API server driven by its key listener, Toggle
\* Sessions stay shorter than min_flush_samples, so that neither a chunk pass
\* nor a flush pass of the coordinator is due in them.
\* The listener thread is free: no key handler and no callback is running.
ListenerFree == kl.pc = "idle" /\ hk.pc = "idle"

\* The listener delivers a key-down and _on_key_press(key) runs up to the
\* callback it fires, if any; the callback runs on the listener thread.
ToggleKeyDown(key) ==
    /\ hotkey_manager = "started"
    /\ ListenerFree
    /\ held' = held \cup {key}
    /\ LET r == IF enabled THEN on_key_press(key) ELSE Ignored IN
       /\ r.fired = <<"on_press">> => sessions < MaxSessions
       /\ KeyHandled("press", key, r)
       /\ kl' = IF r.fired = << >> THEN kl
                ELSE [pc |-> "callback", op |-> r.fired[1], key |-> key]
    /\ NotLogged
    /\ UNCHANGED <<ctl, program_vars>>

\* The listener delivers the key-up of a held key.
ToggleKeyUp(key) ==
    /\ hotkey_manager = "started"
    /\ ListenerFree
    /\ key \in held
    /\ held' = held \ {key}
    /\ LET r == IF enabled THEN on_key_release(key) ELSE Ignored IN
       /\ KeyHandled("release", key, r)
       /\ kl' = IF r.fired = << >> THEN kl
                ELSE [pc |-> "callback", op |-> r.fired[1], key |-> key]
    /\ NotLogged
    /\ UNCHANGED <<ctl, program_vars>>

\* self.on_press(): on_hotkey_press() of the API server.
ToggleOnPress(device_ok) ==
    /\ kl.pc = "callback"
    /\ kl.op = "on_press"
    /\ on_hotkey_press(device_ok)
    /\ kl' = [pc |-> "idle", op |-> "none", key |-> NoKey]
    /\ UNCHANGED <<machine_vars, ctl, held, last_ev, logging, events, fired, last_cb>>

\* self.on_release(): on_hotkey_release() of the API server, which goes on
\* with the flush and stop_recording() on the listener thread.
ToggleOnRelease ==
    /\ kl.pc = "callback"
    /\ kl.op = "on_release"
    /\ on_hotkey_release
    /\ kl' = [pc |-> "idle", op |-> "none", key |-> NoKey]
    /\ UNCHANGED <<machine_vars, ctl, held, last_ev, logging, events, fired, last_cb>>

\* POST /recording/cancel, served while the listener thread is free:
\* stop_recording() discards the capture, is_recording is cleared and
\* "ready" is broadcast; nothing happens when no recording is on.
RestCancelRecording(stop_ok) ==
    /\ ListenerFree
    /\ is_recording
    /\ stop_ok => StreamStopReturns(au.pc)
    /\ audio_recording' = FALSE
    /\ stream_open' = StreamAfterStop(stop_ok)
    /\ audio_buffer' = BufferAfterStop(audio_buffer)
    /\ is_recording' = FALSE
    /\ status' = "ready"
    /\ UNCHANGED <<coord_vars, current_partial_text, hk, au, workers, model_calls,
                   sessions, chunks, obs_vars, emit_len>>
    /\ UNCHANGED hotkey_vars
    /\ UNCHANGED main_vars
    /\ UNCHANGED rest_vars

NextToggle ==
    /\ \/ ModelLoaded
       \/ \E hotkey \in Hotkeys : HotkeyManagerStart(hotkey, MODE_TOGGLE)
       \/ \E key \in Keys : ToggleKeyDown(key)
       \/ \E key \in Keys : ToggleKeyUp(key)
       \/ \E device_ok \in BOOLEAN : ToggleOnPress(device_ok)
       \/ ToggleOnRelease
       \/ \E stop_ok \in BOOLEAN : RestCancelRecording(stop_ok)
       \/ AudioCallback
       \/ \E stop_ok \in BOOLEAN : HotkeyStopped(stop_ok)
       \/ \E w \in DOMAIN workers : WorkerStart(w)
       \/ \E w \in DOMAIN workers, o \in ThreadOutcomes, stored \in BOOLEAN :
              WorkerTranscribed(w, o, stored)
       \/ \E w \in DOMAIN workers, pasted \in BOOLEAN : WorkerPaste(w, pasted)
    /\ chunks' <= MaxLaterChunks

SpecToggle == Init /\ [][NextToggle]_vars

\* ------- SpecStop: the API server with a client of POST /recording/stop
\* Sessions stay shorter than min_flush_samples, so that neither a chunk pass
\* nor a flush pass of the coordinator is due in them.
RestCaller == [kind |-> "rest", id |-> 0]

all_but_stop_vars ==
    <<hotkey_vars, main_vars, history>>

\* on_hotkey_release() after a stop_recording() that found the source not
\* armed and returned None: is_recording is cleared and "ready" broadcast.
HotkeyNotArmed ==
    /\ hk.pc = "not_armed"
    /\ is_recording' = FALSE
    /\ status' = "ready"
    /\ hk' = [pc |-> "idle"]
    /\ UNCHANGED <<coord_vars, current_partial_text, audio_vars, au, workers,
                   model_calls, sessions, chunks, obs_vars, emit_len>>
    /\ UNCHANGED <<all_but_stop_vars, stop_vars>>

\* POST /recording/stop while a recording is on and no flush pass is due,
\* up to the first test of AudioCapture.stop_recording().
RestStop ==
    /\ rs.pc = "idle"
    /\ is_recording
    /\ FlushSkips(model_ready, streaming_buffer)
    /\ rs' = [pc |-> IF audio_recording THEN "armed" ELSE "not_armed"]
    /\ UNCHANGED <<coord_vars, api_vars, audio_vars, thread_vars, obs_vars, emit_len,
                   rest_fin, all_but_stop_vars>>

\* stop_recording() of the request: self._recording = False.
RestDisarm ==
    /\ rs.pc = "armed"
    /\ audio_recording' = FALSE
    /\ rs' = [pc |-> "stopping"]
    /\ UNCHANGED <<coord_vars, api_vars, stream_open, audio_buffer, thread_vars,
                   obs_vars, emit_len, rest_fin, all_but_stop_vars>>

\* stop_recording() of the request returns: the stream is stopped and its
\* handle dropped, the buffer is taken under the lock; the endpoint clears
\* is_recording, broadcasts "transcribing", and either broadcasts "ready"
\* for an empty capture or enters transcribe() up to the backend call.
RestStopped(stop_ok) ==
    /\ rs.pc \in {"stopping", "not_armed"}
    /\ (rs.pc = "stopping" /\ stop_ok) => StreamStopReturns(au.pc)
    /\ LET capture == IF rs.pc = "stopping" THEN audio_buffer ELSE << >>
           e == TranscribeEntry(streaming_buffer, last_transcribed_length)
       IN
       /\ stream_open' = IF rs.pc = "stopping" THEN StreamAfterStop(stop_ok)
                         ELSE stream_open
       /\ audio_buffer' = IF rs.pc = "stopping" THEN BufferAfterStop(audio_buffer)
                          ELSE audio_buffer
       /\ is_recording' = FALSE
       /\ IF CaptureEmpty(capture)
          THEN /\ status' = "ready"
               /\ rs' = [pc |-> "idle"]
               /\ UNCHANGED <<streaming_buffer, last_transcribed_length, model_calls,
                              rest_fin>>
          ELSE /\ status' = "transcribing"
               /\ streaming_buffer' = e.buf
               /\ last_transcribed_length' = e.last
               /\ model_calls' = model_calls \cup
                     {[by |-> RestCaller, audio |-> SumSeq(capture)]}
               /\ rest_fin' = Append(rest_fin, sessions)
               /\ rs' = [pc |-> "fin_call"]
    /\ UNCHANGED <<model_ready, current_partial_text, audio_recording, hk, au, workers,
                   sessions, chunks, obs_vars, emit_len, all_but_stop_vars>>

\* The backend call of the request's transcribe() returns or raises; the
\* text is replaced and stored and "ready" broadcast, unless
\* apply_replacements() or add_to_history() raises (~stored).
RestTranscribed(o, stored) ==
    /\ rs.pc = "fin_call"
    /\ model_calls' = CallsWithout(RestCaller)
    /\ status' = IF stored THEN "ready" ELSE status
    /\ rs' = [pc |-> "idle"]
    /\ UNCHANGED <<coord_vars, current_partial_text, is_recording, audio_vars, hk, au,
                   workers, sessions, chunks, obs_vars, emit_len, rest_fin,
                   all_but_stop_vars>>

NextStop ==
    /\ \/ ModelLoaded
       \/ \E device_ok \in BOOLEAN : HotkeyPress(device_ok)
       \/ AudioCallback
       \/ HotkeyRelease
       \/ \E stop_ok \in BOOLEAN : HotkeyStopped(stop_ok)
       \/ HotkeyNotArmed
       \/ \E w \in DOMAIN workers : WorkerStart(w)
       \/ \E w \in DOMAIN workers, o \in ThreadOutcomes, stored \in BOOLEAN :
              WorkerTranscribed(w, o, stored)
       \/ \E w \in DOMAIN workers, pasted \in BOOLEAN : WorkerPaste(w, pasted)
       \/ RestStop
       \/ RestDisarm
       \/ \E stop_ok \in BOOLEAN : RestStopped(stop_ok)
       \/ \E o \in ThreadOutcomes, stored \in BOOLEAN : RestTranscribed(o, stored)
    /\ chunks' <= MaxLaterChunks

SpecStop == Init /\ [][NextStop]_vars

\* ------------------------------------------ SpecHistory: the history file
\* Everything but the history file.
not_history_vars ==
    <<coord_vars, api_vars, audio_vars, thread_vars, obs_vars, emit_len, hotkey_vars,
      main_vars, stop_vars>>

\* The id add_to_history() gives a new entry of the loaded list.
NewEntryId(h) == Len(h) + 1

\* add_to_history(): the entry is appended to the loaded list and the list
\* saved; save_history() catches an IOError and leaves the file as it was.
AddToHistory(saved) ==
    /\ Len(history) < MaxHistory
    /\ history' = IF saved THEN Append(history, NewEntryId(history)) ELSE history
    /\ UNCHANGED not_history_vars

\* The list delete_history_entry() keeps.
WithoutEntry(h, entry_id) ==
    LET keep == {i \in DOMAIN h : h[i] # entry_id}
        nth(n) == CHOOSE i \in keep : Cardinality({j \in keep : j < i}) = n - 1
    IN [n \in 1..Cardinality(keep) |-> h[nth(n)]]

\* delete_history_entry(entry_id): the list without the entries of that id
\* is saved when it is shorter.
DeleteHistoryEntry(entry_id, saved) ==
    /\ history' = IF saved THEN WithoutEntry(history, entry_id) ELSE history
    /\ UNCHANGED not_history_vars

\* clear_history()
ClearHistory(saved) ==
    /\ history' = IF saved THEN << >> ELSE history
    /\ UNCHANGED not_history_vars

NextHistory ==
    \/ \E saved \in BOOLEAN : AddToHistory(saved)
    \/ \E entry_id \in 1..MaxHistory, saved \in BOOLEAN :
          DeleteHistoryEntry(entry_id, saved)
    \/ \E saved \in BOOLEAN : ClearHistory(saved)

SpecHistory == Init /\ [][NextHistory]_vars

\* ================================================================ claims
\* C1: at no point are two backend model invocations in progress.
C1_ModelCallsSerialized == Cardinality(model_calls) <= 1

\* C2: at most one finalize+output pipeline executes at any time.
C2_OnePipelineAtATime == Cardinality(PipelinesRunning) <= 1

\* C3: a finalize that owns its audio snapshot does not change the streaming
\* buffer or the last-transcribed marker of a session that started after its
\* own and is recording.
C3_FinalizeLeavesNewSessionAlone ==
    [][\A w \in DOMAIN workers :
          (/\ workers[w].pc # "done"
           /\ workers'[w].pc # workers[w].pc
           /\ is_recording
           /\ sessions > workers[w].session)
             => (/\ streaming_buffer' = streaming_buffer
                 /\ last_transcribed_length' = last_transcribed_length)]_vars

\* C4: in every reachable state the last-transcribed sample count is at most
\* the accumulated sample count of the streaming buffer.
C4_MarkerWithinBuffer == last_transcribed_length <= streaming_buffer

\* C5: for every sequence of chunks pushed after a reset whose total length
\* stays below the startup threshold, every pushChunk returns nothing and
\* performs no backend invocation.
C5_BelowStartupSilent ==
    (last_op.op = "push" /\ pushed < MIN_SAMPLES_FOR_TRANSCRIPTION)
        => (last_op.ret = NoText /\ last_op.invoked = 0 /\ last_op.emitted = << >>)

\* C5 witness: a ready coordinator holding 1.5 s and more of pushed audio,
\* still below the threshold, after a pushChunk.
C5_Witness ==
    /\ last_op.op = "push"
    /\ model_ready
    /\ streaming_buffer = pushed
    /\ pushed > TRANSCRIBE_INTERVAL_SAMPLES + min_flush_samples
    /\ pushed < MIN_SAMPLES_FOR_TRANSCRIPTION

\* C6 as stated: the pushChunk that crosses the startup threshold makes
\* exactly one backend invocation over the whole accumulated buffer and sets
\* lastTranscribed = accumulated; a later pushChunk invokes the backend only
\* when at least one interval of samples arrived since the last invocation.
C6_AsStated ==
    last_op.op = "push" =>
        /\ (/\ model_ready
            /\ last_op.buf_before < MIN_SAMPLES_FOR_TRANSCRIPTION
            /\ streaming_buffer >= MIN_SAMPLES_FOR_TRANSCRIPTION)
              => (/\ last_op.invoked = 1
                  /\ last_op.audio = streaming_buffer
                  /\ last_transcribed_length = streaming_buffer)
        /\ (last_op.invoked = 1 /\ last_op.prev_inv # -1)
              => last_op.audio - last_op.prev_inv >= TRANSCRIBE_INTERVAL_SAMPLES

\* C6 amended: the pushChunk that crosses the startup threshold makes exactly
\* one backend invocation over the whole accumulated buffer and, when that
\* invocation does not fail, sets lastTranscribed = accumulated; a later
\* pushChunk invokes the backend only when at least one interval of samples
\* arrived since the last invocation that did not fail.
C6_DebouncedSinceLastSuccess ==
    last_op.op = "push" =>
        /\ last_op.invoked \in {0, 1}
        /\ (/\ model_ready
            /\ last_op.buf_before < MIN_SAMPLES_FOR_TRANSCRIPTION
            /\ streaming_buffer >= MIN_SAMPLES_FOR_TRANSCRIPTION)
              => (/\ last_op.invoked = 1
                  /\ last_op.audio = streaming_buffer
                  /\ (last_op.ok => last_transcribed_length = streaming_buffer))
        /\ (last_op.invoked = 1 /\ last_op.prev_inv_ok # -1)
              => last_op.audio - last_op.prev_inv_ok >= TRANSCRIBE_INTERVAL_SAMPLES
        /\ (last_op.invoked = 1 /\ last_op.ok)
              => last_transcribed_length = last_op.audio

\* C6 witness: 1-second chunks; the first invocation was made at 2 s and the
\* third chunk makes the second invocation at 3 s.
C6_Witness ==
    /\ last_op.op = "push"
    /\ last_op.chunk = TRANSCRIBE_INTERVAL_SAMPLES
    /\ last_op.invoked = 1
    /\ last_op.prev_inv_ok = 2 * TRANSCRIBE_INTERVAL_SAMPLES
    /\ last_op.audio = 3 * TRANSCRIBE_INTERVAL_SAMPLES
    /\ pushed = 3 * TRANSCRIBE_INTERVAL_SAMPLES

\* C7: a partial emitted for a pushChunk is never identical to the partial
\* emitted immediately before it in the session.
C7_PartialNeverRepeats ==
    (last_op.op = "push" /\ last_op.emitted # << >> /\ last_op.prev_emit # NoText)
        => last_op.emitted[1] # last_op.prev_emit

\* C8: flush() with accumulated audio shorter than the flush threshold
\* returns nothing and performs no backend call.
C8_ShortFlushSilent ==
    (last_op.op = "flush" /\ streaming_buffer < min_flush_samples)
        => (last_op.ret = NoText /\ last_op.invoked = 0 /\ last_op.emitted = << >>)

\* C8 witness: a flush on a ready coordinator that holds some audio, less
\* than the flush threshold.
C8_Witness ==
    /\ last_op.op = "flush"
    /\ model_ready
    /\ streaming_buffer > 0
    /\ streaming_buffer < min_flush_samples

\* C9: flush() with accumulated audio at or above the flush threshold makes
\* exactly one backend invocation over the whole accumulated buffer, however
\* few samples arrived since the last pushChunk invocation; the text of the
\* backend is returned and is emitted (stripped) whenever it is not blank,
\* also when it equals the partial emitted last.
C9_FlushAlwaysTranscribes ==
    (last_op.op = "flush" /\ streaming_buffer >= min_flush_samples)
        => (/\ last_op.invoked = 1
            /\ last_op.audio = streaming_buffer
            /\ (last_op.ok => last_op.ret = last_op.answer)
            /\ (Strip(last_op.ret) # NoText
                  => last_op.emitted = <<Strip(last_op.ret)>>)
            /\ (Strip(last_op.ret) = NoText => last_op.emitted = << >>))

\* C9 witness: a flush right after a pushChunk invocation (no new sample
\* since) whose text equals the partial emitted last, and is emitted again.
C9_Witness ==
    /\ last_op.op = "flush"
    /\ last_op.invoked = 1
    /\ streaming_buffer = last_transcribed_length
    /\ streaming_buffer >= MIN_SAMPLES_FOR_TRANSCRIPTION
    /\ last_op.prev_emit # NoText
    /\ last_op.emitted = <<last_op.prev_emit>>

C11_PartialsInLengthOrder ==
    [][(is_recording /\ is_recording' /\ sessions' = sessions)
          => emit_len' >= emit_len]_vars

\* C12 as stated: on key-down the key is added to the pressed set, and a
\* dispatch happens exactly when comboActive was false and the configured
\* combination is a subset of the pressed set; comboActive then becomes true.
\* In PushToTalk the dispatch fires onActivate; in Toggle it flips
\* toggleRecording and fires onActivate if the flag is now true, otherwise
\* onDeactivate.  (Key-down on an enabled machine.)
C12_AsStated ==
    (last_ev.op = "press" /\ last_ev.before.enabled) =>
        LET b == last_ev.before
            dispatch == ~b.hotkey_active /\ b.hotkey_keys \subseteq pressed_keys
        IN /\ pressed_keys = b.pressed_keys \cup {normalize_key(last_ev.key)}
           /\ (last_ev.fired # << >>) <=> dispatch
           /\ dispatch => hotkey_active

\* C12 amended: on key-down the key is added to the pressed set, and a
\* dispatch happens exactly when comboActive was false, the configured
\* combination is not empty and it is a subset of the pressed set; comboActive
\* then becomes true.  In PushToTalk the dispatch fires onActivate; in Toggle
\* it flips toggleRecording and fires onActivate if the flag is now true,
\* otherwise onDeactivate.  Without a dispatch both flags stay as they were.
C12_KeyDownDispatch ==
    (last_ev.op = "press" /\ last_ev.before.enabled) =>
        LET b == last_ev.before
            dispatch == /\ ~b.hotkey_active
                        /\ b.hotkey_keys # {}
                        /\ b.hotkey_keys \subseteq pressed_keys
        IN /\ pressed_keys = b.pressed_keys \cup {normalize_key(last_ev.key)}
           /\ (last_ev.fired # << >>) <=> dispatch
           /\ dispatch /\ b.mode = MODE_PUSH_TO_TALK
                => /\ hotkey_active
                   /\ last_ev.fired = <<"on_press">>
                   /\ toggle_recording = b.toggle_recording
           /\ dispatch /\ b.mode = MODE_TOGGLE
                => /\ hotkey_active
                   /\ toggle_recording = ~b.toggle_recording
                   /\ last_ev.fired =
                         IF toggle_recording THEN <<"on_press">> ELSE <<"on_release">>
           /\ ~dispatch
                => /\ hotkey_active = b.hotkey_active
                   /\ toggle_recording = b.toggle_recording

\* C12 witness: in toggle mode, while recording, the key-down that completes
\* a hotkey of three keys fires on_release.
C12_Witness ==
    /\ last_ev.op = "press"
    /\ last_ev.before.enabled
    /\ mode = MODE_TOGGLE
    /\ Cardinality(hotkey_keys) = 3
    /\ last_ev.before.toggle_recording
    /\ ~last_ev.before.hotkey_active
    /\ hotkey_active
    /\ last_ev.fired = <<"on_release">>

\* C13: on key-up the key is removed from the pressed set; comboActive
\* becomes false exactly when it was true and the released key is a member of
\* the combination, and onDeactivate is fired on that edge in PushToTalk mode
\* only.  Releasing a key that is not in the combination while the combo is
\* active leaves comboActive unchanged and fires nothing.  (Key-up on an
\* enabled machine.)
C13_KeyUpEdge ==
    (last_ev.op = "release" /\ last_ev.before.enabled) =>
        LET b == last_ev.before
            edge == /\ b.hotkey_active
                    /\ normalize_key(last_ev.key) \in b.hotkey_keys
        IN /\ pressed_keys = b.pressed_keys \ {normalize_key(last_ev.key)}
           /\ edge => ~hotkey_active
           /\ ~edge => hotkey_active = b.hotkey_active
           /\ last_ev.fired =
                 IF edge /\ b.mode = MODE_PUSH_TO_TALK THEN <<"on_release">> ELSE << >>
           /\ toggle_recording = b.toggle_recording

\* C13 witness: a key outside the hotkey is released while the hotkey is
\* active, and the hotkey stays active.
C13_Witness ==
    /\ last_ev.op = "release"
    /\ last_ev.before.enabled
    /\ last_ev.before.hotkey_active
    /\ normalize_key(last_ev.key) \in last_ev.before.pressed_keys
    /\ normalize_key(last_ev.key) \notin hotkey_keys
    /\ hotkey_active

\* The recorded events i..j are one event `op` for each key of the hotkey.
Block(op, i, j) ==
    /\ \A n \in i..j : events[n].op = op
    /\ {normalize_key(events[n].key) : n \in i..j} = hotkey_keys

\* The record is press, release, press, release of the full hotkey.
PressReleaseTwice ==
    LET n == Cardinality(hotkey_keys) IN
    /\ n > 0
    /\ Len(events) = 4 * n
    /\ Block("press", 1, n)
    /\ Block("release", n + 1, 2 * n)
    /\ Block("press", 2 * n + 1, 3 * n)
    /\ Block("release", 3 * n + 1, 4 * n)

\* C14: in Toggle mode, press, release, press, release of the full
\* combination yields exactly one activate followed by exactly one
\* deactivate; key releases never dispatch any callback, and the callbacks
\* fired on successive press edges alternate activate, deactivate.
C14_ToggleAlternates ==
    (logging /\ mode = MODE_TOGGLE) =>
        /\ \A i \in DOMAIN fired :
              /\ events[fired[i].at].op = "press"
              /\ fired[i].cb = IF i % 2 = 1 THEN "on_press" ELSE "on_release"
        /\ PressReleaseTwice =>
              fired = << [cb |-> "on_press", at |-> Cardinality(hotkey_keys)],
                         [cb |-> "on_release", at |-> 3 * Cardinality(hotkey_keys)] >>
        /\ last_ev.op = "release" => last_ev.fired = << >>

\* C14 witness: toggle mode, the full hotkey pressed, released, pressed and
\* released, with a right-hand modifier among the keys used.
C14_Witness ==
    /\ logging
    /\ mode = MODE_TOGGLE
    /\ PressReleaseTwice
    /\ \E n \in DOMAIN events : events[n].key = "ctrl_r"

\* The keys held down after the first n recorded events.
RECURSIVE HeldAfter(_)
HeldAfter(n) ==
    IF n = 0 THEN {}
    ELSE IF events[n].op = "press"
         THEN HeldAfter(n - 1) \cup {events[n].key}
         ELSE HeldAfter(n - 1) \ {events[n].key}

\* The record starts with all keys of the hotkey going down and one of them
\* going up.
AllDownThenOneUp ==
    LET n == Cardinality(hotkey_keys) IN
    /\ n > 0
    /\ Len(events) > n
    /\ Block("press", 1, n)
    /\ events[n + 1].op = "release"
    /\ normalize_key(events[n + 1].key) \in hotkey_keys

\* The callbacks C15 expects of such a record.
ActivateThenDeactivate ==
    /\ Len(fired) >= 2
    /\ fired[1] = [cb |-> "on_press", at |-> Cardinality(hotkey_keys)]
    /\ fired[2] = [cb |-> "on_release", at |-> Cardinality(hotkey_keys) + 1]

\* C15 as stated: in PushToTalk mode, pressing all combination keys and then
\* releasing any one combination key yields activate then deactivate;
\* re-pressing without first fully releasing all combination keys does not
\* fire activate again: between two activates there is a moment at which no
\* combination key is held.
C15_AsStated ==
    (logging /\ mode = MODE_PUSH_TO_TALK) =>
        /\ AllDownThenOneUp => ActivateThenDeactivate
        /\ \A i, j \in DOMAIN fired :
              (i < j /\ fired[i].cb = "on_press" /\ fired[j].cb = "on_press")
                 => \E n \in fired[i].at .. fired[j].at :
                       \A k \in HeldAfter(n) : normalize_key(k) \notin hotkey_keys

\* C15 amended: in PushToTalk mode, pressing all combination keys and then
\* releasing any one combination key yields activate then deactivate;
\* activate and deactivate alternate, so no key-down fires activate while the
\* combination is active; and a key-down that completes the combination again
\* after a release fires activate again, also when the other combination keys
\* were held all along.
C15_PushToTalkEdges ==
    (logging /\ mode = MODE_PUSH_TO_TALK) =>
        /\ AllDownThenOneUp => ActivateThenDeactivate
        /\ \A i \in DOMAIN fired :
              /\ fired[i].cb = IF i % 2 = 1 THEN "on_press" ELSE "on_release"
              /\ events[fired[i].at].op = IF i % 2 = 1 THEN "press" ELSE "release"
        /\ hotkey_active <=> Len(fired) % 2 = 1
        /\ (/\ last_ev.op = "press"
            /\ ~last_ev.before.hotkey_active
            /\ hotkey_keys # {}
            /\ hotkey_keys \subseteq pressed_keys)
              => (/\ fired # << >>
                  /\ fired[Len(fired)] = [cb |-> "on_press", at |-> Len(events)])

\* C15 witness: a hotkey of three keys goes down, one key goes up and down
\* again while the two others are held: activate, deactivate, activate.
C15_Witness ==
    /\ logging
    /\ mode = MODE_PUSH_TO_TALK
    /\ Cardinality(hotkey_keys) = 3
    /\ AllDownThenOneUp
    /\ Len(events) = 5
    /\ events[5] = [op |-> "press", key |-> events[4].key]
    /\ Len(fired) = 3
    /\ fired[3] = [cb |-> "on_press", at |-> 5]

\* The key events of C16.
C16_Events ==
    << [op |-> "press", key |-> "ctrl_l"], [op |-> "press", key |-> "shift_l"],
       [op |-> "press", key |-> "space"], [op |-> "release", key |-> "space"],
       [op |-> "release", key |-> "ctrl_l"], [op |-> "release", key |-> "shift_l"] >>

\* The callbacks C16 expects, with the index of the event that fires each.
C16_Fired ==
    << [cb |-> "on_press", at |-> 3], [cb |-> "on_release", at |-> 4] >>

\* C16: with combination {ctrl_l, shift_l, space} in PushToTalk mode,
\* pressing ctrl_l, shift_l, space in sequence fires exactly one onActivate
\* (on the last press); releasing space then fires exactly one onDeactivate;
\* releasing ctrl_l and shift_l afterwards fires no further callback.
C16_ThreeKeyPushToTalk ==
    (/\ logging
     /\ mode = MODE_PUSH_TO_TALK
     /\ hotkey_keys = {"ctrl_l", "shift_l", "space"}
     /\ Len(events) <= Len(C16_Events)
     /\ events = SubSeq(C16_Events, 1, Len(events)))
        => fired = SelectSeq(C16_Fired, LAMBDA f : f.at <= Len(events))

\* C16 witness: the six key events have been handled.
C16_Witness ==
    /\ logging
    /\ mode = MODE_PUSH_TO_TALK
    /\ hotkey_keys = {"ctrl_l", "shift_l", "space"}
    /\ events = C16_Events

\* C17: reconfiguring the combination (set_hotkey with at least one valid
\* key) or the mode (set_mode) leaves both comboActive and toggleRecording
\* false and fires no callback, whatever the state before the call.
C17_ReconfigureResets ==
    (\/ last_ev.op = "set_mode"
     \/ last_ev.op = "set_hotkey" /\ last_ev.arg # {})
        => (/\ ~hotkey_active
            /\ ~toggle_recording
            /\ last_ev.fired = << >>)

\* C19: setting a combination with zero valid keys is rejected: set_hotkey
\* returns failure and the previous combination, comboActive,
\* toggleRecording and pressed set are all unchanged.
C19_InvalidHotkeyRejected ==
    (last_ev.op = "set_hotkey" /\ last_ev.arg = {})
        => (/\ ~last_ev.ret
            /\ Machine = last_ev.before
            /\ last_ev.fired = << >>)

\* C19 witness: set_hotkey without a valid key on a machine whose hotkey of
\* three keys is active, in toggle mode, while recording.
C19_Witness ==
    /\ last_ev.op = "set_hotkey"
    /\ last_ev.arg = {}
    /\ Cardinality(hotkey_keys) = 3
    /\ hotkey_keys \subseteq pressed_keys
    /\ hotkey_active
    /\ toggle_recording

\* C20: a key-down for a key that is already in the pressed set (re-press,
\* auto-repeat before release) is idempotent: it changes no hotkey-machine
\* state and fires no callback.
C20_RepressIdempotent ==
    (/\ last_ev.op = "press"
     /\ normalize_key(last_ev.key) \in last_ev.before.pressed_keys)
        => (/\ Machine = last_ev.before
            /\ last_ev.fired = << >>)

\* C18: disabling the hotkey machine clears the pressed set, comboActive and
\* toggleRecording without firing callbacks; while disabled no key event
\* changes state or fires a callback; and at re-enable the pressed set is
\* empty and both flags are false, for every interleaving of disable() with
\* key events delivered by the listener thread.  (Disabled: disable() has
\* returned and enable() has not been called.)
C18_DisabledIsInert ==
    LET cleared == pressed_keys = {} /\ ~hotkey_active /\ ~toggle_recording IN
    /\ last_ev.op = "disable" => (cleared /\ last_ev.fired = << >>)
    /\ (last_ev.op \in {"press", "release"} /\ ~last_ev.before.enabled /\ ctl = "idle")
          => (Machine = last_ev.before /\ last_ev.fired = << >>)
    /\ (hotkey_manager = "started" /\ ~enabled /\ ctl = "idle") => cleared
    /\ (last_ev.op = "enable" /\ ~last_ev.before.enabled) => cleared

\* C21: an activate event that arrives while the backend is not ready, or
\* while the settings dialog is open, changes nothing: in such a state the
\* press handler has no step that alters the status, the audio source, the
\* session count or any other variable.
C21_PressIgnored ==
    (settings_open \/ ~model_ready) =>
        ~ENABLED <<\E device_ok \in BOOLEAN : MainPress(device_ok)>>_vars

\* The settings dialog is open over a ready, idle application that could
\* still start a session: a press arriving now would otherwise record.
C21_Witness ==
    /\ settings_open
    /\ model_ready
    /\ hk.pc = "idle"
    /\ ~audio_recording
    /\ sessions < MaxSessions
    /\ ENABLED (\E device_ok \in BOOLEAN : MainPress(device_ok))

\* C22: a deactivate event that arrives when no recording is in progress
\* changes nothing: no flush pass, no backend call, no audio stop, no
\* finalize worker, no status.
C22_ReleaseIgnored ==
    ~is_recording => ~ENABLED <<HotkeyRelease>>_vars

\* No recording is in progress, the release handler can run, and the
\* streaming buffer of the session just stopped still holds enough samples
\* for a flush pass, its finalize worker not having started.
C22_Witness ==
    /\ ~is_recording
    /\ hk.pc = "idle"
    /\ model_ready
    /\ streaming_buffer >= min_flush_samples
    /\ \E w \in DOMAIN workers : workers[w].pc = "started"
    /\ ENABLED HotkeyRelease

C24_PipelineEndsReady ==
    [][\A w \in DOMAIN workers :
          (workers[w].pc # "done" /\ workers'[w].pc = "done") =>
              status' \in {"ready", "error"}]_vars

\* C25: a backend invocation that fails during finalize surfaces as
\* Status=Error: the step in which a worker's transcribe() call ends in
\* failure leaves the status Error.
C25_FailedFinalizeIsError ==
    [][\A w \in DOMAIN workers :
          (workers[w].pc = "fin_call" /\ workers'[w].pc = "done"
             /\ last_fin' = "failed") => status' = "error"]_vars

\* C26: a partial transcript is broadcast only while its session is still
\* recording: whenever a chunk pass (audio thread) or a flush pass (listener
\* thread) is running, and so may still broadcast its text, the session has
\* not been stopped and no finalize worker exists for it.
C26_PartialsWhileRecording ==
    (au.pc = "chunk_call" \/ hk.pc = "flush_call") =>
        /\ is_recording
        /\ stream_open
        /\ \A w \in DOMAIN workers : workers[w].session # sessions

\* A chunk pass is still running on the audio thread while the release
\* handler waits in stream.stop().
C26_Witness ==
    /\ au.pc = "chunk_call"
    /\ hk.pc = "stopping"
    /\ is_recording

C28_RecordingOnlyWhenStarted ==
    [][(status # "recording" /\ status' = "recording") =>
          (~audio_recording /\ audio_recording' /\ sessions' = sessions + 1)]_vars

\* C29: a pushChunk whose backend invocation fails returns no partial text
\* and broadcasts nothing, keeps the accumulated buffer with the pushed
\* chunk, and leaves the last-transcribed marker where it was; the pushChunk
\* that follows a failed invocation invokes the backend again.
C29_FailedPassRetried ==
    last_op.op = "push" =>
        /\ (last_op.invoked = 1 /\ ~last_op.ok) =>
              /\ last_op.ret = NoText
              /\ last_op.emitted = << >>
              /\ streaming_buffer = last_op.buf_before + last_op.chunk
              /\ last_transcribed_length = last_op.last_before
        /\ (last_op.prev_inv # -1 /\ last_op.prev_inv # last_op.prev_inv_ok) =>
              /\ last_op.invoked = 1
              /\ last_op.audio = streaming_buffer

\* The invocation of the previous pushChunk failed, and this pushChunk
\* transcribed the whole buffer and produced a partial.
C29_Witness ==
    /\ last_op.op = "push"
    /\ last_op.prev_inv # -1
    /\ last_op.prev_inv # last_op.prev_inv_ok
    /\ last_op.prev_inv = last_op.buf_before
    /\ last_op.invoked = 1
    /\ last_op.ok
    /\ last_op.emitted # << >>

\* C30: finalization runs on a worker thread, never on the hotkey-listener
\* thread, and the release handler never waits for the finalize lock or a
\* finalize backend call: every backend call in progress belongs to the
\* worker that holds the lock, the listener thread is only ever idle or
\* inside stop_recording(), and from there the handler can always finish,
\* whoever holds the lock.
C30_ReleaseNeverWaitsForFinalize ==
    /\ \A c \in model_calls :
          /\ c.by.kind = "finalize"
          /\ c.by.id \in DOMAIN workers
          /\ workers[c.by.id].pc = "fin_call"
          /\ transcribe_lock = c.by.id
    /\ hk.pc \in {"idle", "stopping"}
    /\ hk.pc = "stopping" => ENABLED (\E stop_ok \in BOOLEAN : MainStopped(stop_ok))
    /\ hk.pc = "idle" => ENABLED MainRelease

\* The release handler is about to hand a non-empty capture to a new worker
\* while the worker of the previous session holds the lock inside its
\* backend call.
C30_Witness ==
    /\ hk.pc = "stopping"
    /\ audio_buffer # << >>
    /\ transcribe_lock # 0
    /\ workers[transcribe_lock].pc = "fin_call"

\* C38: in every state of the hotkey machine, an active hotkey has every key
\* of the configured combination in the pressed-key set.
C38_ActiveImpliesAllPressed ==
    hotkey_active => hotkey_keys \subseteq pressed_keys

\* The hotkey is active with more keys down than the combination has, the
\* last event being the release of a key outside the combination.
C38_Witness ==
    /\ hotkey_active
    /\ hotkey_keys # {}
    /\ hotkey_keys # pressed_keys
    /\ last_ev.op = "release"
    /\ normalize_key(last_ev.key) \notin hotkey_keys

\* C39: in push-to-talk mode, as long as no configuration call was made
\* since construction, the callbacks fired by key-down and key-up events
\* alternate on_press, on_release, starting with on_press.
C39_CallbacksAlternate ==
    [][(mode = MODE_PUSH_TO_TALK /\ last_cb # "off"
          /\ last_ev'.op \in {"press", "release"}) =>
          \A i \in DOMAIN last_ev'.fired :
             /\ i = 1
             /\ last_ev'.fired[i] = "on_press" => last_cb \in {"none", "on_release"}
             /\ last_ev'.fired[i] = "on_release" => last_cb = "on_press"]_vars

\* A second activation, after the first one was ended and after an
\* auto-repeat key-down was delivered.
C39_Witness ==
    /\ mode = MODE_PUSH_TO_TALK
    /\ ~logging
    /\ last_cb = "on_press"
    /\ last_ev.fired = <<"on_press">>
    /\ last_ev.before.pressed_keys # {}

\* C40: after any sequence of add_to_history and delete_history_entry
\* operations the stored entries have pairwise distinct ids.
C40_HistoryIdsDistinct ==
    \A i, j \in DOMAIN history : history[i] = history[j] => i = j

\* C31: an activation that arrives while the finalize of an earlier session
\* holds the lock is accepted at once: with a ready backend, the dialog
\* closed, the source idle and a device that starts, the press handler arms
\* the source for a new session and sets Status=Recording, and leaves the
\* worker and its lock alone.
C31_PressAcceptedDuringFinalize ==
    (/\ hk.pc = "idle"
     /\ sessions < MaxSessions
     /\ model_ready
     /\ ~settings_open
     /\ ~audio_recording
     /\ transcribe_lock # 0) =>
        ENABLED (/\ MainPress(TRUE)
                 /\ audio_recording'
                 /\ status' = "recording"
                 /\ sessions' = sessions + 1
                 /\ workers' = workers
                 /\ transcribe_lock' = transcribe_lock)

\* A new session records while the worker of an earlier session is still
\* inside its backend call.
C31_Witness ==
    /\ audio_recording
    /\ status = "recording"
    /\ transcribe_lock # 0
    /\ workers[transcribe_lock].pc = "fin_call"
    /\ workers[transcribe_lock].session < sessions

\* C35: whenever a recording is in progress (the source is armed), the
\* status published last is Recording.
C35_RecordingStatusKept ==
    audio_recording => status = "recording"

\* C33: the step that ends stop_recording(), whether stream.stop() and
\* close() returned or raised, leaves the source not armed, without a stream
\* handle and with an empty chunk buffer, and a non-empty capture is handed
\* whole to the finalize worker it starts.
C33_StopCleansUp ==
    [][(hk.pc = "stopping" /\ hk'.pc = "idle") =>
          /\ ~audio_recording'
          /\ ~stream_open'
          /\ audio_buffer' = << >>
          /\ audio_buffer # << >> =>
                /\ Len(workers') = Len(workers) + 1
                /\ workers'[Len(workers')].audio = SumSeq(audio_buffer)]_vars

\* stream.stop() raised while a chunk pass was still running in the audio
\* callback: the release handler is back, the source is not armed, the handle
\* and the buffer are gone and the capture is with a finalize worker.
C33_Witness ==
    /\ au.pc = "chunk_call"
    /\ hk.pc = "idle"
    /\ ~audio_recording
    /\ ~stream_open
    /\ audio_buffer = << >>
    /\ \E w \in DOMAIN workers :
          workers[w].session = sessions /\ workers[w].pc = "started"

\* C34: while a session records, the streaming buffer and the
\* last-transcribed marker hold nothing but that session's samples: neither
\* exceeds what the audio callback delivered since the session's press, and
\* every accepted press leaves buffer, marker and cached partial text empty.
C34_SessionStartsClean ==
    /\ is_recording =>
          /\ streaming_buffer <= chunks * CHUNK_SIZE
          /\ last_transcribed_length <= chunks * CHUNK_SIZE
    /\ (is_recording /\ chunks = 0 /\ au.pc = "idle") =>
          /\ streaming_buffer = 0
          /\ last_transcribed_length = 0
          /\ current_partial_text = NoText

\* C32 (the dispatch half): once disable() has returned, and until enable()
\* is called, no key handler that finishes fires the activate or the
\* deactivate callback.
C32_NoDispatchOnceDisabled ==
    [][(hotkey_manager = "started" /\ ~enabled /\ ctl = "idle" /\ kl.pc = "locked"
           /\ kl'.pc = "idle")
          => last_ev'.fired = << >>]_vars

\* C32 (the finalize half): opening or closing the settings dialog, which
\* disables and re-enables the hotkey, leaves every finalize worker and the
\* finalize lock as they are, and a worker inside the backend call can still
\* return and publish Ready while the dialog is open.
C32_FinalizeNotInterrupted ==
    /\ [][settings_open' # settings_open =>
             /\ workers' = workers
             /\ transcribe_lock' = transcribe_lock
             /\ model_calls' = model_calls]_vars
    /\ [](\A w \in DOMAIN workers :
            (settings_open /\ workers[w].pc = "fin_call") =>
               ENABLED (/\ \E o \in ThreadOutcomes : MainWorkerTranscribed(w, o)
                        /\ status' = "ready"
                        /\ workers'[w].pc = "done"))

\* C36: in Toggle mode, whenever the listener thread is free (no key handler
\* and no callback is running), the toggleRecording flag of the hotkey
\* machine is set exactly when the orchestrator is recording.
C36_ToggleFollowsRecording ==
    (hotkey_manager = "started" /\ mode = MODE_TOGGLE /\ ListenerFree)
        => (toggle_recording <=> is_recording)

\* The finalize passes that received the capture of session n: the workers
\* started by on_hotkey_release() and the transcribe() calls of
\* POST /recording/stop.
Finalizations(n) ==
    Cardinality({w \in DOMAIN workers : workers[w].session = n})
      + Cardinality({i \in DOMAIN rest_fin : rest_fin[i] = n})

\* C37: no session's capture goes to more than one finalize pass, and a
\* session that delivered audio has gone to exactly one by the time the
\* next session starts, or by the time its stop handlers have returned.
C37_FinalizedOnce ==
    /\ [](\A n \in 1..sessions : Finalizations(n) <= 1)
    /\ []((sessions >= 1 /\ chunks > 0 /\ ~is_recording /\ ~audio_recording
              /\ hk.pc = "idle" /\ rs.pc \in {"idle", "fin_call"})
            => Finalizations(sessions) = 1)
    /\ [][(sessions' = sessions + 1 /\ sessions >= 1 /\ chunks > 0)
            => Finalizations(sessions) = 1]_vars
====
